---- MODULE Spec2Model ----
(***************************************************************************)
(* Model of the Safetec Water polling engine                               *)
(* (custom_components/safetec_water): the retrying transport, the          *)
(* batch-first / per-field snapshot assembler, the value normalizer, the   *)
(* hour-anchored rate tracker and the two DataUpdateCoordinator channels   *)
(* (main, pressure) together with the config-entry setup that starts them. *)
(*                                                                         *)
(* Values.  A device value is a tagged record: None (Python None / JSON    *)
(* null), Num(n) (a float, kept in fixed point: n counts 1/Scale), Str(s)  *)
(* (text, a sequence of one-character strings) or Dict(m) (a JSON object,  *)
(* a function from its keys to values).                                    *)
(***************************************************************************)
EXTENDS Integers, Sequences, FiniteSets, TLC

VARIABLES
    entry,      \* the config entry: host configured?, outcome of async_setup_entry, loaded/unloaded
    registry,   \* hass.data[DOMAIN]: is there a record for the entry
    platform,   \* position of sensor._async_setup_entities: "none", "first_main", "first_pressure", "ready", "aborted"
    entities,   \* TRUE once async_add_entities registered the sensors (the coordinators' listeners)
    coord,      \* per channel: the DataUpdateCoordinator's data, last_update_success, last_exception
    task,       \* per channel: the update method in flight: pc, all_payload (the get/all answer), idx (next field of
                \* the fallback loop), data (its local dict), adm (did the device grant admin mode on this cycle's trigger)
    tracker,    \* VolumePerHourTracker: _hour_start, _hour_start_value
    link,       \* the device/network: "flaky" (a request may fail) or "up" (every request is answered)
    cycle,      \* per channel, history of the cycle in flight or last finished: the requests it issued and how it ended
    fetch,      \* history of one _async_get_json call: path, responses met, attempts made, sleeps taken, outcome
    call        \* history of one call of a function of the module: its name, its arguments, what it returned

vars == <<entry, registry, platform, entities, coord, task, tracker, link, cycle, fetch, call>>

----------------------------------------------------------------------------
(* Values *)

None == [t |-> "none"]

Num(n) == [t |-> "num", n |-> n]

Str(s) == [t |-> "str", s |-> s]

Dict(m) == [t |-> "dict", m |-> m]

\* a JSON array
List(xs) == [t |-> "list", xs |-> xs]

\* a JSON integer beyond the range of a float (more than 308 digits)
BigInt == [t |-> "bigint"]

\* fixed point: Num(n) stands for the float n / Scale
Scale == 10 * 1000

\* the empty JSON object
EmptyDict == Dict(<<>>)

\* the one-key object {k: v}
Single(k, v) == Dict([x \in {k} |-> v])

----------------------------------------------------------------------------
(* Program constants *)

RETRY_ATTEMPTS == 3

\* RETRY_BASE_DELAY_SECONDS = 0.5, in milliseconds
RETRY_BASE_DELAY_MS == 500

MAIN_KEY_MAP ==
    << [key |-> "volume",      path |-> "get/vol", api |-> "getVOL"],
       [key |-> "ltv",         path |-> "get/ltv", api |-> "getLTV"],
       [key |-> "avo",         path |-> "get/avo", api |-> "getAVO"],
       [key |-> "cnd",         path |-> "get/cnd", api |-> "getCND"],
       [key |-> "flo",         path |-> "get/flo", api |-> "getFLO"],
       [key |-> "temperature", path |-> "get/cel", api |-> "getCEL"],
       [key |-> "battery",     path |-> "get/bat", api |-> "getBAT"],
       [key |-> "net",         path |-> "get/net", api |-> "getNET"],
       [key |-> "wfr",         path |-> "get/wfr", api |-> "getWFR"],
       [key |-> "wfs",         path |-> "get/wfs", api |-> "getWFS"],
       [key |-> "wip",         path |-> "get/wip", api |-> "getWIP"],
       [key |-> "wgw",         path |-> "get/wgw", api |-> "getWGW"],
       [key |-> "vlv",         path |-> "get/vlv", api |-> "getVLV"],
       [key |-> "firmware",    path |-> "get/ver", api |-> "getVER"],
       [key |-> "serial",      path |-> "get/srn", api |-> "getSRN"] >>

\* the logical keys of MAIN_KEY_MAP
MainKeys == {MAIN_KEY_MAP[i].key : i \in 1..Len(MAIN_KEY_MAP)}

\* the keys _coerce_main_data passes through _coerce_number
NumericKeys == {"volume", "ltv", "avo", "cnd", "flo", "temperature", "battery", "net", "wfr", "vlv"}

\* the keys async_fetch_main tests to accept the get/all result
LivenessKeys == {"volume", "temperature", "battery"}

ADMIN_PATH == "set/adm/(2)f"

ALL_PATH == "get/all"

\* the pressure request sent to the batch endpoint
BAR_PATH_BATCH == "get/all"

BAR_PATH == "get/bar"

Channels == {"main", "pressure"}

----------------------------------------------------------------------------
(* Value normalizer *)

Lower == <<"a","b","c","d","e","f","g","h","i","j","k","l","m","n","o","p","q","r","s","t","u","v","w","x","y","z">>

UpperCase == <<"A","B","C","D","E","F","G","H","I","J","K","L","M","N","O","P","Q","R","S","T","U","V","W","X","Y","Z">>

\* str.upper() on one character
UpperChar(c) ==
    IF \E i \in 1..Len(Lower) : Lower[i] = c
    THEN UpperCase[CHOOSE i \in 1..Len(Lower) : Lower[i] = c]
    ELSE c

\* str.upper()
Upper(s) == [i \in 1..Len(s) |-> UpperChar(s[i])]

\* sub in s
Contains(s, sub) ==
    \E i \in 0..(Len(s) - Len(sub)) : \A j \in 1..Len(sub) : s[i + j] = sub[j]

\* _extract_value(data, key)
_extract_value(data, key) ==
    IF data.t = "dict"
    THEN IF key \in DOMAIN data.m
         THEN data.m[key]
         ELSE IF Cardinality(DOMAIN data.m) = 1
              THEN data.m[CHOOSE k \in DOMAIN data.m : TRUE]
              ELSE data
    ELSE data

\* the sentinel test without upper()
IsSentinelCased(s) ==
    \/ Contains(s, <<"E","R","R","O","R">>)
    \/ Contains(s, <<"M","I","M","A">>)

\* the sentinel test of _normalize_api_value
IsSentinel(s) ==
    \/ Contains(Upper(s), <<"E","R","R","O","R">>)
    \/ Contains(Upper(s), <<"M","I","M","A">>)

\* _normalize_api_value(value)
_normalize_api_value(value) ==
    IF value.t = "str" /\ IsSentinel(value.s) THEN None ELSE value

Digits == <<"0","1","2","3","4","5","6","7","8","9">>

IsDigit(c) == \E i \in 1..10 : Digits[i] = c

DigitVal(c) == (CHOOSE i \in 1..10 : Digits[i] = c) - 1

RECURSIVE Pow10(_)
Pow10(k) == IF k = 0 THEN 1 ELSE 10 * Pow10(k - 1)

\* the value of a sequence of digits
RECURSIVE DigitsVal(_)
DigitsVal(s) ==
    IF s = <<>> THEN 0 ELSE 10 * DigitsVal(SubSeq(s, 1, Len(s) - 1)) + DigitVal(s[Len(s)])

\* str.strip() of blanks, as float() does before parsing
RECURSIVE Strip(_)
Strip(s) ==
    IF s = <<>> THEN s
    ELSE IF s[1] = " " THEN Strip(Tail(s))
    ELSE IF s[Len(s)] = " " THEN Strip(SubSeq(s, 1, Len(s) - 1))
    ELSE s

ValueError == [t |-> "ValueError"]

\* float(text): Num, or ValueError.  Covers [sign] digits [ . digits ] and
\* [sign] . digits with at most four decimals; the exponent, underscore,
\* inf and nan spellings float() also accepts are kept out of the input sets.
ParseFloat(text) ==
    LET s    == Strip(text)
        neg  == s # <<>> /\ s[1] = "-"
        body == IF s # <<>> /\ s[1] \in {"-", "+"} THEN Tail(s) ELSE s
        dots == {i \in 1..Len(body) : body[i] = "."}
        p    == IF dots = {} THEN Len(body) + 1 ELSE CHOOSE i \in dots : TRUE
        ip   == SubSeq(body, 1, p - 1)
        fp   == SubSeq(body, p + 1, Len(body))
        ok   == /\ Cardinality(dots) <= 1
                /\ Len(ip) + Len(fp) >= 1
                /\ Len(fp) <= 4
                /\ \A i \in 1..Len(body) : i \in dots \/ IsDigit(body[i])
        mag  == DigitsVal(ip) * Scale + DigitsVal(fp) * Pow10(4 - Len(fp))
    IN  IF ok THEN Num(IF neg THEN 0 - mag ELSE mag) ELSE ValueError

\* what float() raises on an integer too large for a float
OverflowError == [t |-> "OverflowError"]

\* _coerce_number(value): float(value), with TypeError and ValueError turned
\* into None; an exception that is not caught is returned as its record
_coerce_number(value) ==
    CASE value.t = "none"   -> None
      [] value.t = "num"    -> value
      [] value.t = "str"    -> IF ParseFloat(value.s) = ValueError THEN None ELSE ParseFloat(value.s)
      [] value.t = "bigint" -> OverflowError
      [] OTHER              -> None

\* truncation to 3 decimals instead of rounding
Floor3(n) == (n \div (Scale \div 1000)) * (Scale \div 1000)

\* round(x, 3) in fixed point: to the nearest multiple of Scale / 1000, a tie to the even one
Round3(n) ==
    LET u == Scale \div 1000
        q == n \div u
        r == n % u
    IN  IF 2 * r < u THEN q * u
        ELSE IF 2 * r > u THEN (q + 1) * u
        ELSE IF q % 2 = 0 THEN q * u ELSE (q + 1) * u

\* the quotient n / d rounded down
FloorDiv(n, d) == n \div d

\* the integer nearest to n / d (d > 0), a tie to the even one
RoundDiv(n, d) ==
    LET q == n \div d
        r == n % d
    IN  IF 2 * r < d THEN q
        ELSE IF 2 * r > d THEN q + 1
        ELSE IF q % 2 = 0 THEN q ELSE q + 1

\* round(number / den, decimals) after _coerce_number, None when that is None.
\* The quotient is rounded exactly; round() on the binary float can differ on
\* a tie, and the inputs keep clear of ties.
Scaled(value, den, decimals) ==
    LET number == _coerce_number(value)
        unit   == Scale \div Pow10(decimals)
    IN  IF number.t # "num" THEN number
        ELSE Num(RoundDiv(number.n, den * unit) * unit)

_millibar_to_bar(value) == Scaled(value, 1000, 3)

_milliliters_to_liters(value) == Scaled(value, 1000, 3)

_tenths_to_celsius(value) == Scaled(value, 10, 1)

_tenths_to_volts(value) == Scaled(value, 10, 2)

_uscm_to_hardness(value) == Scaled(value, 30, 2)

\* the value_fn of the sensor descriptions that convert a unit
ValueFns ==
    {"_millibar_to_bar", "_milliliters_to_liters", "_tenths_to_celsius", "_tenths_to_volts",
     "_uscm_to_hardness"}

\* entity_description.value_fn(value)
value_fn(fn, value) ==
    CASE fn = "_millibar_to_bar"       -> _millibar_to_bar(value)
      [] fn = "_milliliters_to_liters" -> _milliliters_to_liters(value)
      [] fn = "_tenths_to_celsius"     -> _tenths_to_celsius(value)
      [] fn = "_tenths_to_volts"       -> _tenths_to_volts(value)
      [] fn = "_uscm_to_hardness"      -> _uscm_to_hardness(value)

\* SafetecWaterSensor.native_value on coordinator data, for a sensor with
\* this data key and value_fn ("none": no value_fn)
native_value(data, data_key, fn) ==
    LET value == IF data_key \in DOMAIN data THEN data[data_key] ELSE None
    IN  IF value = None THEN None
        ELSE IF fn # "none" THEN value_fn(fn, value)
        ELSE value

----------------------------------------------------------------------------
(* Transport *)

\* what one HTTP attempt can meet: a 2xx answer with a JSON body, or an error
\* aiohttp.ClientError (connection error, or raise_for_status on a non-2xx
\* status), asyncio.TimeoutError, ValueError (a body that is not JSON)
Ok(body) == [k |-> "ok", body |-> body]

Fail(kind) == [k |-> kind]

FailKinds == {"ClientError", "TimeoutError", "ValueError"}

\* `if attempt == RETRY_ATTEMPTS: break`, with the off-by-one a bug would make
LastAttemptLate(attempt) == attempt = RETRY_ATTEMPTS + 1

LastAttempt(attempt) == attempt = RETRY_ATTEMPTS

\* wait_time = RETRY_BASE_DELAY_SECONDS * attempt
WaitTime(attempt) == RETRY_BASE_DELAY_MS * attempt

\* the for loop of _async_get_json from `attempt` on; rs[i] is what attempt i
\* meets, waits the asyncio.sleep calls made so far
RECURSIVE RetryLoop(_, _, _)
RetryLoop(rs, attempt, waits) ==
    IF attempt > RETRY_ATTEMPTS
    THEN [ok |-> FALSE, body |-> None, attempts |-> attempt - 1, waits |-> waits]
    ELSE IF rs[attempt].k = "ok"
    THEN [ok |-> TRUE, body |-> rs[attempt].body, attempts |-> attempt, waits |-> waits]
    ELSE IF LastAttempt(attempt)
    THEN [ok |-> FALSE, body |-> None, attempts |-> attempt, waits |-> waits]
    ELSE RetryLoop(rs, attempt + 1, Append(waits, WaitTime(attempt)))

\* _async_get_json: ok with the body returned, or not ok (UpdateFailed raised)
_async_get_json(rs) == RetryLoop(rs, 1, <<>>)

\* _async_fire_and_forget: one attempt, the body discarded; FALSE is UpdateFailed
_async_fire_and_forget(r) == r.k = "ok"

----------------------------------------------------------------------------
(* Snapshot assembler *)

\* dict.get(k): None for a missing key
Get(d, k) == IF k \in DOMAIN d THEN d[k] ELSE None

\* the MAIN_KEY_MAP entry of a logical key
EntryOf(key) == MAIN_KEY_MAP[CHOOSE i \in 1..Len(MAIN_KEY_MAP) : MAIN_KEY_MAP[i].key = key]

\* data[logical_key] = _normalize_api_value(_extract_value(payload, api_key))
FieldValue(payload, api) == _normalize_api_value(_extract_value(payload, api))

\* _coerce_main_data(data)
_coerce_main_data(data) ==
    [k \in MainKeys |-> IF k \in NumericKeys THEN _coerce_number(Get(data, k)) ELSE Get(data, k)]

\* _parse_main_payload(payload)
_parse_main_payload(payload) ==
    _coerce_main_data([k \in MainKeys |-> FieldValue(payload, EntryOf(k).api)])

\* all() where the code has any()
HasLivenessAll(parsed) == \A k \in LivenessKeys : Get(parsed, k) # None

\* any(parsed.get(key) is not None for key in ("volume", "temperature", "battery"))
HasLiveness(parsed) == \E k \in LivenessKeys : Get(parsed, k) # None

\* async_fetch_pressure, after the GET
PressureData(payload) ==
    [k \in {"pressure"} |-> _coerce_number(FieldValue(payload, "getBAR"))]

----------------------------------------------------------------------------
(* Rate tracker *)

Hour(h) == [t |-> "hour", h |-> h]

\* VolumePerHourTracker.__init__
NewTracker == [hour_start |-> None, hour_start_value |-> None]

\* update without the test for a negative delta
update_signed(tr, value, current_hour) ==
    IF value = None
    THEN [ret |-> None, tr |-> tr]
    ELSE IF tr.hour_start # current_hour \/ tr.hour_start_value = None
    THEN [ret |-> Num(0), tr |-> [hour_start |-> current_hour, hour_start_value |-> value]]
    ELSE [ret |-> Num(Round3(value.n - tr.hour_start_value.n)), tr |-> tr]

\* update taking a sample below the anchor volume as the new anchor
update_reanchored(tr, value, current_hour) ==
    IF value = None
    THEN [ret |-> None, tr |-> tr]
    ELSE IF tr.hour_start # current_hour \/ tr.hour_start_value = None
    THEN [ret |-> Num(0), tr |-> [hour_start |-> current_hour, hour_start_value |-> value]]
    ELSE LET delta == value.n - tr.hour_start_value.n
         IN  IF delta < 0
             THEN [ret |-> None, tr |-> [tr EXCEPT !.hour_start_value = value]]
             ELSE [ret |-> Num(Round3(delta)), tr |-> tr]

\* VolumePerHourTracker.update(value) at clock hour current_hour: the value
\* returned (ret) and the tracker afterwards (tr)
update(tr, value, current_hour) ==
    IF value = None
    THEN [ret |-> None, tr |-> tr]
    ELSE IF tr.hour_start # current_hour \/ tr.hour_start_value = None
    THEN [ret |-> Num(0), tr |-> [hour_start |-> current_hour, hour_start_value |-> value]]
    ELSE LET delta == value.n - tr.hour_start_value.n
         IN  IF delta < 0
             THEN [ret |-> None, tr |-> tr]
             ELSE [ret |-> Num(Round3(delta)), tr |-> tr]

\* _update_main without the derived field
_update_main_bare(data, tr, current_hour) ==
    [data |-> data, tr |-> update(tr, Get(data, "volume"), current_hour).tr]

\* _update_main, after async_fetch_main returned data
_update_main(data, tr, current_hour) ==
    LET u == update(tr, Get(data, "volume"), current_hour)
    IN  [data |-> [k \in DOMAIN data \cup {"volume_per_hour"} |->
                      IF k = "volume_per_hour" THEN u.ret ELSE data[k]],
         tr |-> u.tr]

----------------------------------------------------------------------------
(* The device: what its endpoints answer *)

\* the clock hours the model runs through: 0..MaxHour
MaxHour == 1

\* dt_util.utcnow() truncated to the hour, as update may read it: the clock
\* does not run backwards, so no hour before the one update read last (the
\* tracker's anchor hour)
ClockHours(tr) ==
    {Hour(h) : h \in (IF tr.hour_start = None THEN 0 ELSE tr.hour_start.h)..MaxHour}

\* what the device's registers hold when it answers properly
Register(key) ==
    CASE key = "volume"      -> Num(100 * Scale)
      [] key = "ltv"         -> Num(3 * Scale)
      [] key = "avo"         -> Num(1500 * Scale)
      [] key = "cnd"         -> Num(450 * Scale)
      [] key = "flo"         -> Num(0)
      [] key = "temperature" -> Num(205 * Scale)
      [] key = "battery"     -> Str(<<"3", "7">>)
      [] key = "net"         -> Num(118 * Scale)
      [] key = "wfr"         -> Num(70 * Scale)
      [] key = "wfs"         -> Str(<<"2">>)
      [] key = "wip"         -> Str(<<"1", "0", ".", "0", ".", "0", ".", "5">>)
      [] key = "wgw"         -> Str(<<"1", "0", ".", "0", ".", "0", ".", "1">>)
      [] key = "vlv"         -> Num(20 * Scale)
      [] key = "firmware"    -> Str(<<"1", ".", "7">>)
      [] key = "serial"      -> Str(<<"4", "2">>)

\* the texts a device without admin rights answers with
ErrorText == Str(<<"E", "r", "r", "o", "r", ":", " ", "A", "D", "M">>)

MimaText == Str(<<"M", "I", "M", "A">>)

\* get/<field>: the register under its api key; a device that did not grant
\* admin mode on the cycle's trigger refuses its measurement registers
FieldBodies(e, adm) ==
    IF ~adm /\ e.key \in NumericKeys THEN {Single(e.api, ErrorText)}
    ELSE {Single(e.api, Register(e.key))}

ApiKeys == {MAIN_KEY_MAP[i].api : i \in 1..Len(MAIN_KEY_MAP)}

\* the logical key an api key belongs to
KeyOfApi(a) == MAIN_KEY_MAP[CHOOSE i \in 1..Len(MAIN_KEY_MAP) : MAIN_KEY_MAP[i].api = a].key

\* get/all answering every register, the volume 2.5 l further on
FullBatch ==
    Dict([a \in ApiKeys |->
            IF a = "getVOL" THEN Num(102 * Scale + Scale \div 2) ELSE Register(KeyOfApi(a))])

\* get/all answering a few registers only, the temperature refused
PartialBatch ==
    Dict([a \in {"getVOL", "getCEL", "getWIP"} |->
            IF a = "getCEL" THEN ErrorText ELSE Register(KeyOfApi(a))])

\* get/all answering no liveness register
NoLivenessBatch == Dict([a \in {"getWIP", "getSRN"} |-> Register(KeyOfApi(a))])

\* get/all: an object (full, partial, one key, no liveness key) or a bare error text
BatchBodies ==
    {FullBatch, PartialBatch, Single("getVOL", Register("volume")), NoLivenessBatch, ErrorText}

\* parsed = self._parse_main_payload(all_payload), for each body get/all answers
ParsedBatch == [body \in BatchBodies |-> _parse_main_payload(body)]

\* async_fetch_main's test on all_payload: return the batch result
BatchAccepted(all_payload) ==
    all_payload.t = "dict" /\ HasLiveness(ParsedBatch[all_payload])

\* get/bar: the pressure in mbar, or a refusal
BarBodies == {Single("getBAR", Num(4100 * Scale)), Single("getBAR", MimaText)}

\* what one attempt against an endpoint with these bodies can meet; an "up"
\* device answers every request
Outcomes(bodies) ==
    {Ok(b) : b \in bodies} \cup (IF link = "up" THEN {} ELSE {Fail(k) : k \in FailKinds})

\* what the attempts of one _async_get_json call meet: k timeouts, then the body
FailThen(k, body) ==
    [i \in 1..(RETRY_ATTEMPTS + 1) |-> IF i <= k THEN Fail("TimeoutError") ELSE Ok(body)]

Oracles(bodies) ==
    {FailThen(k, b) : k \in (IF link = "up" THEN {0} ELSE 0..RETRY_ATTEMPTS), b \in bodies}

----------------------------------------------------------------------------
(* Poll coordinator (homeassistant DataUpdateCoordinator) and setup *)

\* DataUpdateCoordinator.__init__
NewCoordinator == [data |-> None, last_update_success |-> TRUE, last_exception |-> "none"]

\* a failed refresh that drops the cached data
RefreshFailedDropsData(co) ==
    [co EXCEPT !.data = None, !.last_update_success = FALSE, !.last_exception = "UpdateFailed"]

\* a refresh whose update method raised UpdateFailed: data is kept
RefreshFailed(co) ==
    [co EXCEPT !.last_update_success = FALSE, !.last_exception = "UpdateFailed"]

\* a successful refresh that leaves the failure flag set
RefreshSucceededStaysStale(co, data) == [co EXCEPT !.data = data]

\* a refresh whose update method returned data
RefreshSucceeded(co, data) == [co EXCEPT !.data = data, !.last_update_success = TRUE]

Idle == [pc |-> "idle", idx |-> 0, data |-> <<>>, all_payload |-> None, adm |-> FALSE]

\* the update method of channel c begins: _update_main / async_fetch_pressure
Start(c) == [Idle EXCEPT !.pc = IF c = "main" THEN "admin" ELSE "bar"]

NoCycle == [calls |-> <<>>, result |-> "none"]

Running(calls) == [calls |-> calls, result |-> "running"]

NoFetch ==
    [path |-> "none", rs |-> <<>>,
     result |-> [ok |-> FALSE, body |-> None, attempts |-> 0, waits |-> <<>>]]

NoCall == [op |-> "none"]

\* data[k] = v on the local dict
Put(d, k, v) == [x \in DOMAIN d \cup {k} |-> IF x = k THEN v ELSE d[x]]

Init ==
    /\ entry \in {[host |-> h, state |-> "new"] : h \in BOOLEAN}
    /\ registry = FALSE
    /\ platform = "none"
    /\ entities = FALSE
    /\ coord = [c \in Channels |-> NewCoordinator]
    /\ task = [c \in Channels |-> Idle]
    /\ tracker = NewTracker
    /\ link = "flaky"
    /\ cycle = [c \in Channels |-> NoCycle]
    /\ fetch = NoFetch
    /\ call = NoCall

\* __init__.async_setup_entry up to the probe request
async_setup_entry ==
    /\ entry.state = "new"
    /\ IF ~entry.host
       THEN /\ entry' = [entry EXCEPT !.state = "setup_false"]
            /\ UNCHANGED registry
       ELSE /\ entry' = [entry EXCEPT !.state = "probing"]
            /\ registry' = TRUE
    /\ UNCHANGED <<platform, entities, coord, task, tracker, link, cycle, fetch, call>>

\* the probe GET of /trio/get/vol answers: ConfigEntryNotReady, or the setup is
\* forwarded to the sensor platform, whose _async_setup_entities builds the
\* client, the tracker and the two coordinators and starts the first main refresh
Probe ==
    /\ entry.state = "probing"
    /\ \E r \in Outcomes({Single("getVOL", Register("volume"))}) :
           IF r.k = "ok"
           THEN /\ entry' = [entry EXCEPT !.state = "forwarding"]
                /\ platform' = "first_main"
                /\ coord' = [c \in Channels |-> NewCoordinator]
                /\ tracker' = NewTracker
                /\ task' = [task EXCEPT !["main"] = Start("main")]
                /\ cycle' = [cycle EXCEPT !["main"] = Running(<<>>)]
           ELSE /\ entry' = [entry EXCEPT !.state = "not_ready"]
                /\ UNCHANGED <<platform, coord, tracker, task, cycle>>
    /\ UNCHANGED <<registry, entities, link, fetch, call>>

\* the end of a refresh where a first refresh that failed does not end the
\* platform setup: the entities are added all the same
ConcludeEager(c, ok, data, calls) ==
    LET done  == [calls |-> calls, result |-> IF ok THEN "ok" ELSE "failed"]
        first == platform = (IF c = "main" THEN "first_main" ELSE "first_pressure")
    IN  /\ coord' = [coord EXCEPT ![c] = IF ok THEN RefreshSucceeded(coord[c], data)
                                                ELSE RefreshFailed(coord[c])]
        /\ IF first /\ c = "main"
           THEN /\ platform' = "first_pressure"
                /\ task' = [task EXCEPT !["main"] = Idle, !["pressure"] = Start("pressure")]
                /\ cycle' = [cycle EXCEPT !["main"] = done, !["pressure"] = Running(<<>>)]
                /\ UNCHANGED <<entities, entry>>
           ELSE /\ task' = [task EXCEPT ![c] = Idle]
                /\ cycle' = [cycle EXCEPT ![c] = done]
                /\ IF first
                   THEN /\ platform' = "ready"
                        /\ entities' = TRUE
                        /\ entry' = [entry EXCEPT !.state = "loaded"]
                   ELSE UNCHANGED <<platform, entities, entry>>

\* the end of a refresh of channel c: the coordinator stores the outcome; when
\* it was a first refresh, _async_setup_entities goes on (the first pressure
\* refresh, async_add_entities) or ends there, the failure only logged (by the
\* except clause, or by the entity platform the exception is raised on to),
\* and __init__.async_setup_entry returns True once the platform setup is over
Conclude(c, ok, data, calls) ==
    LET done  == [calls |-> calls, result |-> IF ok THEN "ok" ELSE "failed"]
        first == platform = (IF c = "main" THEN "first_main" ELSE "first_pressure")
    IN  /\ coord' = [coord EXCEPT ![c] = IF ok THEN RefreshSucceeded(coord[c], data)
                                                ELSE RefreshFailed(coord[c])]
        /\ IF first /\ ok /\ c = "main"
           THEN /\ platform' = "first_pressure"
                /\ task' = [task EXCEPT !["main"] = Idle, !["pressure"] = Start("pressure")]
                /\ cycle' = [cycle EXCEPT !["main"] = done, !["pressure"] = Running(<<>>)]
                /\ UNCHANGED <<entities, entry>>
           ELSE /\ task' = [task EXCEPT ![c] = Idle]
                /\ cycle' = [cycle EXCEPT ![c] = done]
                /\ IF first
                   THEN /\ platform' = (IF ok THEN "ready" ELSE "aborted")
                        /\ entities' = ok
                        /\ entry' = [entry EXCEPT !.state = "loaded"]
                   ELSE UNCHANGED <<platform, entities, entry>>

\* the interval timer of channel c fires: the coordinator schedules refreshes
\* while it has listeners (the registered entities)
TimerTick(c) ==
    /\ platform = "ready" /\ entities /\ entry.state = "loaded"
    /\ task[c].pc = "idle"
    /\ task' = [task EXCEPT ![c] = Start(c)]
    /\ cycle' = [cycle EXCEPT ![c] = Running(<<>>)]
    /\ UNCHANGED <<entry, registry, platform, entities, coord, tracker, link, fetch, call>>

\* async_fetch_main: await self._async_fire_and_forget("set/adm/(2)f")
AdminTrigger ==
    /\ task["main"].pc = "admin"
    /\ \E r \in Outcomes({None}) \ {Fail("ValueError")}, adm \in BOOLEAN :
           LET calls == Append(cycle["main"].calls, ADMIN_PATH)
           IN  IF _async_fire_and_forget(r)
               THEN /\ task' = [task EXCEPT !["main"].pc = "batch", !["main"].adm = adm]
                    /\ cycle' = [cycle EXCEPT !["main"] = Running(calls)]
                    /\ UNCHANGED <<entry, platform, entities, coord>>
               ELSE Conclude("main", FALSE, None, calls)
    /\ UNCHANGED <<registry, tracker, link, fetch, call>>

\* async_fetch_main: the get/all request; a request that failed for good
\* leaves all_payload None
BatchFetch ==
    /\ task["main"].pc = "batch"
    /\ \E rs \in Oracles(BatchBodies) :
       \E r \in {_async_get_json(rs)} :
           /\ task' = [task EXCEPT !["main"].pc = "select",
                                   !["main"].all_payload = IF r.ok THEN r.body ELSE None]
           /\ cycle' = [cycle EXCEPT !["main"] = Running(Append(cycle["main"].calls, ALL_PATH))]
    /\ UNCHANGED <<entry, registry, platform, entities, coord, tracker, link, fetch, call>>

\* async_fetch_main: the choice between the parsed get/all payload and the
\* per-field fallback; on return _update_main adds volume_per_hour
SelectSnapshot ==
    /\ task["main"].pc = "select"
    /\ LET all_payload == task["main"].all_payload
       IN  IF BatchAccepted(all_payload)
           THEN \E parsed \in {ParsedBatch[all_payload]} :
                \E current_hour \in ClockHours(tracker) :
                \E u \in {_update_main(parsed, tracker, current_hour)} :
                    /\ tracker' = u.tr
                    /\ Conclude("main", TRUE, u.data, cycle["main"].calls)
           ELSE /\ task' = [task EXCEPT !["main"].pc = "fields", !["main"].idx = 1,
                                        !["main"].all_payload = None]
                /\ UNCHANGED <<entry, platform, entities, coord, tracker, cycle>>
    /\ UNCHANGED <<registry, link, fetch, call>>

\* _async_fetch_main_individual: one turn of the loop over MAIN_KEY_MAP; after
\* the last one _coerce_main_data, and _update_main adds volume_per_hour
FieldFetch ==
    /\ task["main"].pc = "fields"
    /\ LET e == MAIN_KEY_MAP[task["main"].idx]
       IN  \E rs \in Oracles(FieldBodies(e, task["main"].adm)) :
           \E r \in {_async_get_json(rs)} :
           \E data \in {Put(task["main"].data, e.key, FieldValue(r.body, e.api))} :
               LET calls == Append(cycle["main"].calls, e.path)
               IN  IF ~r.ok
                   THEN /\ Conclude("main", FALSE, None, calls)
                        /\ UNCHANGED tracker
                   ELSE IF task["main"].idx = Len(MAIN_KEY_MAP)
                   THEN \E coerced \in {_coerce_main_data(data)} :
                        \E current_hour \in ClockHours(tracker) :
                        \E u \in {_update_main(coerced, tracker, current_hour)} :
                            /\ tracker' = u.tr
                            /\ Conclude("main", TRUE, u.data, calls)
                   ELSE /\ task' = [task EXCEPT !["main"].idx = @ + 1, !["main"].data = data]
                        /\ cycle' = [cycle EXCEPT !["main"] = Running(calls)]
                        /\ UNCHANGED <<entry, platform, entities, coord, tracker>>
    /\ UNCHANGED <<registry, link, fetch, call>>

\* a pressure cycle that feeds the rate tracker
BarFetchTracked ==
    /\ task["pressure"].pc = "bar"
    /\ \E rs \in Oracles(BarBodies) :
       \E r \in {_async_get_json(rs)} :
           LET calls == Append(cycle["pressure"].calls, BAR_PATH)
           IN  IF r.ok
               THEN \E data \in {PressureData(r.body)} :
                        /\ Conclude("pressure", TRUE, data, calls)
                        /\ tracker' = update(tracker, data["pressure"], Hour(0)).tr
               ELSE Conclude("pressure", FALSE, None, calls) /\ UNCHANGED tracker
    /\ UNCHANGED <<registry, link, fetch, call>>

\* async_fetch_pressure
BarFetch ==
    /\ task["pressure"].pc = "bar"
    /\ \E rs \in Oracles(BarBodies) :
       \E r \in {_async_get_json(rs)} :
           LET calls == Append(cycle["pressure"].calls, BAR_PATH)
           IN  IF r.ok
               THEN \E data \in {PressureData(r.body)} : Conclude("pressure", TRUE, data, calls)
               ELSE Conclude("pressure", FALSE, None, calls)
    /\ UNCHANGED <<registry, tracker, link, fetch, call>>

\* the device starts answering every request
LinkUp ==
    /\ link = "flaky"
    /\ link' = "up"
    /\ UNCHANGED <<entry, registry, platform, entities, coord, task, tracker, cycle, fetch, call>>

Next ==
    \/ async_setup_entry
    \/ Probe
    \/ TimerTick("main")
    \/ TimerTick("pressure")
    \/ AdminTrigger
    \/ BatchFetch
    \/ SelectSnapshot
    \/ FieldFetch
    \/ BarFetch
    \/ LinkUp

Spec == Init /\ [][Next]_vars

----------------------------------------------------------------------------
(* Recovery: the running platform from the moment the device answers again *)

\* the main snapshot and the tracker after a first cycle on a full get/all
\* payload in clock hour 0
FirstMain == _update_main(_parse_main_payload(FullBatch), NewTracker, Hour(0))

\* the coordinator of channel c after its first refresh and, when stale, after
\* a later refresh that failed
Settled(c, stale) ==
    LET first == RefreshSucceeded(NewCoordinator,
                                  IF c = "main" THEN FirstMain.data
                                  ELSE PressureData(Single("getBAR", Num(4100 * Scale))))
    IN  IF stale THEN RefreshFailed(first) ELSE first

\* the record of the cycle that left channel c fresh or stale: a stale main
\* channel lost its admin trigger, a stale pressure channel its get/bar
LastCycle(c, stale) ==
    IF c = "main"
    THEN IF stale THEN [calls |-> <<ADMIN_PATH>>, result |-> "failed"]
         ELSE [calls |-> <<ADMIN_PATH, ALL_PATH>>, result |-> "ok"]
    ELSE [calls |-> <<BAR_PATH>>, result |-> IF stale THEN "failed" ELSE "ok"]

\* a set-up platform between two cycles, each channel fresh or stale, at the
\* step LinkUp has just taken
LiveInit ==
    /\ entry = [host |-> TRUE, state |-> "loaded"]
    /\ registry = TRUE
    /\ platform = "ready"
    /\ entities = TRUE
    /\ \E stale \in [Channels -> BOOLEAN] :
           /\ coord = [c \in Channels |-> Settled(c, stale[c])]
           /\ cycle = [c \in Channels |-> LastCycle(c, stale[c])]
    /\ task = [c \in Channels |-> Idle]
    /\ tracker = FirstMain.tr
    /\ link = "up"
    /\ fetch = NoFetch
    /\ call = NoCall

LiveNext ==
    \/ TimerTick("main")
    \/ TimerTick("pressure")
    \/ AdminTrigger
    \/ BatchFetch
    \/ SelectSnapshot
    \/ FieldFetch
    \/ BarFetch

\* The event loop runs every task that is ready and fires every due timer, and
\* every request ends within its 10 s timeout: each step of a channel that is
\* enabled is eventually taken.
LiveSpec ==
    /\ LiveInit
    /\ [][LiveNext]_vars
    /\ WF_vars(TimerTick("main") \/ AdminTrigger \/ BatchFetch \/ SelectSnapshot \/ FieldFetch)
    /\ WF_vars(TimerTick("pressure") \/ BarFetch)

----------------------------------------------------------------------------
(* Unloading the config entry of the running platform *)

\* __init__.async_unload_entry with async_unload_platforms answering True: the
\* entities are removed, so the coordinators lose their listeners and
\* schedule no further refresh, and the entry of hass.data is popped.  The
\* function holds no reference to the coordinators, the client or the tracker
\* (they are locals of _async_setup_entities, built without a config entry and
\* never shut down), so a refresh in flight is ended only where Home Assistant
\* runs it as a task of the config entry; elsewhere it runs on.
async_unload_entry ==
    /\ entry.state = "loaded"
    /\ entry' = [entry EXCEPT !.state = "unloaded"]
    /\ registry' = FALSE
    /\ entities' = FALSE
    /\ \E cancelled \in BOOLEAN :
           IF cancelled
           THEN /\ task' = [c \in Channels |-> Idle]
                /\ cycle' = [c \in Channels |->
                                IF task[c].pc = "idle" THEN cycle[c]
                                ELSE [cycle[c] EXCEPT !.result = "cancelled"]]
           ELSE UNCHANGED <<task, cycle>>
    /\ UNCHANGED <<platform, coord, tracker, link, fetch, call>>

UnloadNext ==
    \/ LiveNext
    \/ async_unload_entry

SpecUnload == LiveInit /\ [][UnloadNext]_vars

----------------------------------------------------------------------------
(* The transport on its own: one _async_get_json call against every run of *)
(* attempt outcomes                                                        *)

FetchPaths == {BAR_PATH, "get/vol"}

FetchBodies(path) ==
    IF path = BAR_PATH THEN BarBodies ELSE {Single("getVOL", Register("volume")), None}

Fetch ==
    /\ fetch = NoFetch
    /\ \E path \in FetchPaths :
           \E rs \in [1..(RETRY_ATTEMPTS + 1) -> Outcomes(FetchBodies(path))] :
               fetch' = [path |-> path, rs |-> rs, result |-> _async_get_json(rs)]
    /\ UNCHANGED <<entry, registry, platform, entities, coord, task, tracker, link, cycle, call>>

SpecFetch == Init /\ [][Fetch]_vars

----------------------------------------------------------------------------
(* The rate tracker on its own: every run of update calls *)

\* volume samples in litres: none, a meter that went back, the anchor of the
\* examples, and readings a little further on
Samples ==
    {None, Num(90 * Scale), Num(100 * Scale), Num(100 * Scale + 4), Num(102 * Scale + 5000),
     Num(102 * Scale + 5004), Num(102 * Scale + 5006)}

\* one call of VolumePerHourTracker.update
TrackerUpdate ==
    /\ \E value \in Samples :
       \E current_hour \in ClockHours(tracker) :
       \E u \in {update(tracker, value, current_hour)} :
           /\ tracker' = u.tr
           /\ call' = [op |-> "update", before |-> tracker, value |-> value,
                       current_hour |-> current_hour, ret |-> u.ret]
    /\ UNCHANGED <<entry, registry, platform, entities, coord, task, link, cycle, fetch>>

SpecTracker == Init /\ [][TrackerUpdate]_vars

----------------------------------------------------------------------------
(* The value functions on their own: one call on every raw value *)

\* texts that carry a sentinel, in several letter cases
SentinelTexts ==
    {ErrorText, MimaText,
     Str(<<"E", "R", "R", "O", "R", "_", "P", "W", "D">>),
     Str(<<"m", "i", "m", "a", "1">>),
     Str(<<"n", "o", " ", "M", "i", "M", "a">>)}

\* texts that carry none: plain, numeric (with blanks, a sign, decimals), empty
PlainTexts ==
    {Str(<<"O", "K">>), Str(<<"3", "7">>), Str(<<" ", "3", ".", "7", " ">>), Str(<<"-", "1", "5">>),
     Str(<<"n", "o", "t", "-", "a", "-", "n", "u", "m", "b", "e", "r">>), Str(<<"1", ".", "2", ".", "3">>),
     Str(<<>>)}

Numbers ==
    {Num(0), Num(37 * Scale), Num(205 * Scale), Num(450 * Scale), Num(455 * Scale),
     Num(1234 * Scale), Num(4100 * Scale), Num(0 - 15 * Scale)}

\* JSON objects: empty, one key (the expected one or another), several keys
Objects ==
    {EmptyDict, Single("getBAR", Num(4100 * Scale)), Single("getBAR", MimaText),
     Single("other", Str(<<"O", "K">>)), PartialBatch, NoLivenessBatch}

\* what a device response, or a field of it, can hold
RawValues ==
    {None, BigInt, List(<<Num(37 * Scale)>>)} \cup Numbers \cup SentinelTexts \cup PlainTexts \cup Objects

ExtractKeys == {"getBAR", "getVOL", "getWIP", "getSRN"}

\* one call of _extract_value
ExtractCall ==
    /\ \E data \in RawValues, key \in ExtractKeys :
           call' = [op |-> "_extract_value", data |-> data, key |-> key,
                    ret |-> _extract_value(data, key)]
    /\ UNCHANGED <<entry, registry, platform, entities, coord, task, tracker, link, cycle, fetch>>

\* one call of _normalize_api_value
NormalizeCall ==
    /\ \E value \in RawValues :
           call' = [op |-> "_normalize_api_value", value |-> value,
                    ret |-> _normalize_api_value(value)]
    /\ UNCHANGED <<entry, registry, platform, entities, coord, task, tracker, link, cycle, fetch>>

\* one call of _coerce_number
CoerceCall ==
    /\ \E value \in RawValues :
           call' = [op |-> "_coerce_number", value |-> value, ret |-> _coerce_number(value)]
    /\ UNCHANGED <<entry, registry, platform, entities, coord, task, tracker, link, cycle, fetch>>

\* get/bar answering a pressure, a sentinel under the key, or a bare sentinel
PressureBodies == BarBodies \cup {Single("getBAR", ErrorText), ErrorText}

\* one call of async_fetch_pressure: ok with the dict returned, or UpdateFailed
PressureCall ==
    /\ \E rs \in Oracles(PressureBodies) :
       \E r \in {_async_get_json(rs)} :
           call' = [op |-> "async_fetch_pressure", rs |-> rs, ok |-> r.ok,
                    ret |-> IF r.ok THEN PressureData(r.body) ELSE None]
    /\ UNCHANGED <<entry, registry, platform, entities, coord, task, tracker, link, cycle, fetch>>

\* one read of a sensor's native_value, the coordinator data holding value
\* under the sensor's data key
NativeValueCall ==
    /\ \E fn \in ValueFns, value \in RawValues :
           call' = [op |-> "native_value", fn |-> fn, value |-> value,
                    ret |-> native_value([k \in {"key"} |-> value], "key", fn)]
    /\ UNCHANGED <<entry, registry, platform, entities, coord, task, tracker, link, cycle, fetch>>

ValuesNext ==
    \/ ExtractCall
    \/ NormalizeCall
    \/ CoerceCall
    \/ PressureCall
    \/ NativeValueCall

SpecValues == Init /\ [][ValuesNext]_vars

----------------------------------------------------------------------------
(* Properties *)

\* a cycle of channel c ends in this step, with the given result
Ends(c, result) == cycle[c].result = "running" /\ cycle'[c].result = result

\* the keys of a published snapshot of channel c
SnapshotKeys(c) == IF c = "main" THEN MainKeys \cup {"volume_per_hour"} ELSE {"pressure"}

\* C1 (stale retention): when a cycle of a channel that has already published
\* a snapshot raises UpdateFailed, the cached snapshot stays exactly as it
\* was, the channel is marked stale (last_update_success false) and a last
\* error is recorded.
C1_StaleRetention ==
    [][\A c \in Channels :
          (Ends(c, "failed") /\ coord[c].data # None)
              => /\ coord'[c].data = coord[c].data
                 /\ ~coord'[c].last_update_success
                 /\ coord'[c].last_exception # "none"]_vars

\* a channel with a published snapshot whose latest cycle failed
C1_Witness ==
    /\ coord["main"].data # None
    /\ cycle["main"].result = "failed"
    /\ ~coord["main"].last_update_success

\* the first main refresh failed: _async_setup_entities returned before the
\* first pressure refresh
FirstFetchFailed == platform = "aborted" /\ cycle["pressure"].result = "none"

\* C2 (bootstrap failure): when the very first fetch cycle fails, setup is
\* reported to the host as failed (not ready), no cache entry is populated for
\* any channel and no entity is registered.
C2_BootstrapFailureReported ==
    FirstFetchFailed
        => /\ entry.state = "not_ready"
           /\ \A c \in Channels : coord[c].data = None
           /\ ~entities

\* C3 (per-field fallback tolerance): a terminal failure of one field's GET
\* does not abort the cycle; the fallback loop is left only after the request
\* for its last field key.
C3_FieldFailureTolerated ==
    [][(task["main"].pc = "fields" /\ task'["main"].pc # "fields")
          => task["main"].idx = Len(MAIN_KEY_MAP)]_vars

\* C4 (admin trigger failure is not fatal): a main cycle never fails on the
\* admin trigger alone; a failed main cycle has issued data requests.
C4_AdminFailureNonFatal ==
    cycle["main"].result = "failed" => Len(cycle["main"].calls) > 1

\* a liveness field of the get/all body normalizes and coerces to a value
BatchConfirmsLiveness(body) ==
    /\ body.t = "dict"
    /\ \E a \in {"getVOL", "getCEL", "getBAT"} :
           _coerce_number(_normalize_api_value(_extract_value(body, a))) # None

\* C5 (batch-first selection): whenever get/all returns a mapping with at
\* least one liveness field (volume, temperature, battery) present after
\* normalization and coercion, the cycle ends at once with the snapshot
\* parsed from that mapping, having issued the admin trigger and get/all and
\* no per-field request.
C5_BatchFirst ==
    [][(/\ task["main"].pc = "select"
        /\ BatchConfirmsLiveness(task["main"].all_payload)
        /\ task'["main"] # task["main"])
          => /\ cycle'["main"] = [calls |-> <<ADMIN_PATH, ALL_PATH>>, result |-> "ok"]
             /\ task'["main"].pc = "idle"
             /\ \A key \in MainKeys :
                    coord'["main"].data[key] = _parse_main_payload(task["main"].all_payload)[key]]_vars

\* a cycle that ended on a partial get/all payload: the volume present, the
\* temperature refused
C5_Witness ==
    /\ cycle["main"] = [calls |-> <<ADMIN_PATH, ALL_PATH>>, result |-> "ok"]
    /\ coord["main"].data["volume"] # None
    /\ coord["main"].data["temperature"] = None

\* C6 (fallback trigger): a main cycle that took the per-field fallback has
\* issued one GET per field key of MAIN_KEY_MAP, each against its own
\* endpoint, after the admin trigger and the batch attempt.
C6_FallbackRequestsEveryField ==
    (cycle["main"].result \in {"ok", "failed"} /\ Len(cycle["main"].calls) > 2)
        => cycle["main"].calls =
               <<ADMIN_PATH, ALL_PATH>> \o [i \in 1..Len(MAIN_KEY_MAP) |-> MAIN_KEY_MAP[i].path]

\* C7 (liveness-gated cycle failure): a main cycle that confirms no liveness
\* field fails instead of publishing; a published main snapshot has volume,
\* temperature or battery present.
C7_NoLivenessNotPublished ==
    coord["main"].data # None
        => \E k \in {"volume", "temperature", "battery"} : coord["main"].data[k] # None

\* the first attempt of a run of outcomes that is answered, 0 if none is
FirstAnswered(rs, n) ==
    IF \E i \in 1..n : rs[i].k = "ok"
    THEN CHOOSE i \in 1..n : rs[i].k = "ok" /\ \A j \in 1..(i - 1) : rs[j].k # "ok"
    ELSE 0

\* C8 (bounded retry): one _async_get_json call makes at most 3 attempts; it
\* returns the body of the first answered attempt and attempts no more; every
\* failed attempt but the third is followed by a sleep of attempt x 0.5 s;
\* UpdateFailed is raised only after 3 failed attempts, with no sleep after
\* the last.
C8_BoundedRetry ==
    fetch.path # "none" =>
        LET r == fetch.result
            i == FirstAnswered(fetch.rs, 3)
        IN  /\ r.attempts \in 1..3
            /\ r.ok = (i # 0)
            /\ r.ok => r.attempts = i /\ r.body = fetch.rs[i].body
            /\ ~r.ok => r.attempts = 3
            /\ r.waits = [j \in 1..(r.attempts - 1) |-> j * 500]

\* a call whose first two attempts failed and whose third was answered
C8_Witness ==
    /\ fetch.result.ok
    /\ fetch.result.attempts = 3
    /\ fetch.result.waits = <<500, 1000>>

\* C9 (recovery): a failed cycle of a ready channel leaves its timer running;
\* a cycle that succeeds stores a complete snapshot and marks the channel
\* non-stale; and, the steps of a channel being taken fairly, once the device
\* answers again a stale channel eventually becomes non-stale.
C9_Recovery ==
    /\ [](\A c \in Channels :
            (platform = "ready" /\ entry.state = "loaded" /\ cycle[c].result = "failed")
                => ENABLED TimerTick(c))
    /\ [][\A c \in Channels :
            Ends(c, "ok") => /\ coord'[c].last_update_success
                             /\ DOMAIN coord'[c].data = SnapshotKeys(c)]_vars
    /\ \A c \in Channels :
           (platform = "ready" /\ link = "up" /\ ~coord[c].last_update_success)
               ~> coord[c].last_update_success

\* a channel that failed earlier (the error is still recorded) and has since
\* published again
C9_Witness ==
    /\ platform = "ready"
    /\ coord["main"].last_exception = "UpdateFailed"
    /\ coord["main"].last_update_success
    /\ cycle["main"].result = "ok"

\* C10 (all-or-nothing publication): a channel's cached snapshot changes only
\* in the step that ends a successful cycle of that channel, and then to a
\* complete snapshot (every key, volume_per_hour included) whose fields are
\* the ones that cycle collected; in every state the cache is empty or complete.
C10_AllOrNothing ==
    /\ [](\A c \in Channels : coord[c].data = None \/ DOMAIN coord[c].data = SnapshotKeys(c))
    /\ [][\A c \in Channels :
            coord'[c].data # coord[c].data
                => /\ Ends(c, "ok")
                   /\ DOMAIN coord'[c].data = SnapshotKeys(c)
                   /\ \A k \in DOMAIN task[c].data :
                          coord'[c].data[k] = _coerce_main_data(task[c].data)[k]]_vars

\* a cycle in progress holds partial data while the cache holds the previous snapshot
C10_Witness ==
    /\ coord["main"].data # None
    /\ task["main"].pc = "fields"
    /\ task["main"].idx > 1
    /\ task["pressure"].pc = "bar"


\* C11 (rate tracker values): for a non-null sample, update returns 0.0 and
\* anchors (current hour, sample) when the tracker holds no anchor or one of
\* another clock hour; for a sample of the anchor's hour that is not below the
\* anchor volume it leaves the anchor alone and returns sample minus anchor
\* volume to the nearest 0.001 (anchor 100.0, sample 102.5: 2.5).
C11_TrackerValues ==
    (call.op = "update" /\ call.value # None) =>
        LET before == call.before
            milli  == Scale \div 1000
        IN  IF before.hour_start # call.current_hour \/ before.hour_start_value = None
            THEN /\ call.ret = Num(0)
                 /\ tracker = [hour_start |-> call.current_hour, hour_start_value |-> call.value]
            ELSE call.value.n >= before.hour_start_value.n =>
                    LET delta == call.value.n - before.hour_start_value.n
                    IN  /\ tracker = before
                        /\ call.ret.t = "num"
                        /\ call.ret.n % milli = 0
                        /\ 2 * (call.ret.n - delta) <= milli
                        /\ 2 * (delta - call.ret.n) <= milli
                        /\ (before.hour_start_value = Num(100 * Scale)
                              /\ call.value = Num(102 * Scale + Scale \div 2))
                                => call.ret = Num(2 * Scale + Scale \div 2)

\* anchor 100.0 and a later sample 102.5006 in the same hour: the rate 2.5006
\* rounds up to 2.501
C11_Witness ==
    /\ call.op = "update"
    /\ call.before = [hour_start |-> Hour(0), hour_start_value |-> Num(100 * Scale)]
    /\ call.current_hour = Hour(0)
    /\ call.value = Num(102 * Scale + 5006)
    /\ call.ret = Num(2 * Scale + 5010)


\* C12 (rate never negative): the volume_per_hour of every published main
\* snapshot is absent or a number >= 0, and it is absent when the published
\* volume lies below the tracker's anchor volume (a sample below the anchor
\* in the anchor's hour).
C12_RateNeverNegative ==
    coord["main"].data # None =>
        LET rate   == coord["main"].data["volume_per_hour"]
            volume == coord["main"].data["volume"]
        IN  /\ rate = None \/ (rate.t = "num" /\ rate.n >= 0)
            /\ (/\ volume # None
                /\ tracker.hour_start_value # None
                /\ volume.n < tracker.hour_start_value.n) => rate = None

\* the meter read 102.5 at the anchor and 100.0 later in the same hour
C12_Witness ==
    /\ coord["main"].data # None
    /\ coord["main"].data["volume"] = Num(100 * Scale)
    /\ tracker.hour_start_value = Num(102 * Scale + Scale \div 2)
    /\ coord["main"].data["volume_per_hour"] = None


\* a step of the update method of channel c that is in flight
StepOf(c) == task[c].pc # "idle" /\ task'[c] # task[c]

\* C13 (channel independence): a step of a pressure cycle, whether it succeeds
\* or fails, leaves the main coordinator (data, last_update_success,
\* last_exception) and the rate tracker as they are; a step of a main cycle
\* leaves the pressure coordinator as it is; and the rate tracker changes only
\* in the step that ends a main cycle successfully.
C13_ChannelIndependence ==
    [][/\ StepOf("pressure") => (coord'["main"] = coord["main"] /\ tracker' = tracker)
       /\ StepOf("main") => coord'["pressure"] = coord["pressure"]
       /\ tracker' # tracker => Ends("main", "ok")]_vars

\* a pressure cycle failed beside a main channel that never failed and holds
\* a snapshot and an anchored tracker
C13_Witness ==
    /\ coord["main"].data # None
    /\ coord["main"].last_update_success
    /\ coord["main"].last_exception = "none"
    /\ tracker.hour_start_value # None
    /\ coord["pressure"].data # None
    /\ cycle["pressure"].result = "failed"


\* C14 (value extraction rule): _extract_value returns the single value of a
\* one-key mapping whatever its key; for a mapping of several keys the value
\* under the expected key, and absent, never the mapping itself, when that
\* key is missing; a body that is no mapping is returned unchanged.
C14_ExtractRule ==
    call.op = "_extract_value" =>
        IF call.data.t # "dict" THEN call.ret = call.data
        ELSE LET m == call.data.m
             IN  IF Cardinality(DOMAIN m) = 1 THEN \A k \in DOMAIN m : call.ret = m[k]
                 ELSE IF call.key \in DOMAIN m THEN call.ret = m[call.key]
                 ELSE Cardinality(DOMAIN m) > 1 => call.ret = None


\* C15 (sentinel downgrade): _normalize_api_value turns a text that carries
\* ERROR or MIMA, in any letter case, into absent and returns every other
\* value unchanged; and a get/bar answer never makes async_fetch_pressure
\* fail: whenever one of the 3 attempts is answered the call succeeds, with
\* pressure absent when the answer carries a sentinel.
C15_SentinelDowngrade ==
    /\ call.op = "_normalize_api_value" =>
           call.ret = (IF call.value \in SentinelTexts THEN None ELSE call.value)
    /\ call.op = "async_fetch_pressure" =>
           LET i == FirstAnswered(call.rs, 3)
           IN  i # 0 =>
                   /\ call.ok
                   /\ DOMAIN call.ret = {"pressure"}
                   /\ call.rs[i].body \in {Single("getBAR", MimaText), Single("getBAR", ErrorText), ErrorText}
                          => call.ret["pressure"] = None

\* a get/bar answered at the second attempt with a sentinel: a successful
\* call, the pressure absent
C15_Witness ==
    /\ call.op = "async_fetch_pressure"
    /\ call.rs[1].k # "ok"
    /\ call.rs[2] = Ok(Single("getBAR", MimaText))
    /\ call.ok
    /\ call.ret = [k \in {"pressure"} |-> None]


\* the texts of PlainTexts that float() parses, with their values
NumericTexts ==
    {<<Str(<<"3", "7">>), Num(37 * Scale)>>,
     <<Str(<<" ", "3", ".", "7", " ">>), Num(3 * Scale + 7 * (Scale \div 10))>>,
     <<Str(<<"-", "1", "5">>), Num(0 - 15 * Scale)>>}

\* C16 (numeric coercion is total): _coerce_number never raises: it returns
\* absent or a number for every raw value; absent for null, for a text that
\* is no number, for a mapping and for a list; the number for a number and
\* for a numeric text.
C16_CoercionTotal ==
    call.op = "_coerce_number" =>
        /\ call.ret = None \/ call.ret.t = "num"
        /\ call.value \in Numbers => call.ret = call.value
        /\ \A p \in NumericTexts : call.value = p[1] => call.ret = p[2]
        /\ (/\ call.value \in {None, List(<<Num(37 * Scale)>>)} \cup SentinelTexts \cup PlainTexts \cup Objects
            /\ \A p \in NumericTexts : call.value # p[1]) => call.ret = None


\* the raw values that are neither a number nor a numeric text
NonNumericValues ==
    ({None, List(<<Num(37 * Scale)>>)} \cup SentinelTexts \cup PlainTexts \cup Objects)
        \ {p[1] : p \in NumericTexts}

\* the number a numeric raw value stands for, in 1/Scale
NumberOf(value) ==
    IF value \in Numbers THEN value.n
    ELSE (CHOOSE p \in NumericTexts : p[1] = value)[2].n

\* ret is the number nearest to n / den among the multiples of 1/perUnit
Nearest(ret, n, den, perUnit) ==
    LET unit == Scale \div perUnit
    IN  /\ ret.t = "num"
        /\ ret.n % unit = 0
        /\ 2 * (ret.n * den - n) <= den * unit
        /\ 2 * (n - ret.n * den) <= den * unit

\* C17 (unit conversion): pressure and volume are divided by 1000 and kept to
\* 3 decimals, temperature by 10 to 1 decimal, voltage by 10 to 2 decimals,
\* conductivity by 30 to 2 decimals (205 tenths: 20.5 C, 1234 mbar: 1.234 bar,
\* 37 tenths: 3.7 V, 450 uS/cm: 15.0); an absent or non-numeric input gives
\* an absent output.
C17_UnitConversion ==
    call.op = "native_value" =>
        /\ call.value \in NonNumericValues => call.ret = None
        /\ (call.value \in Numbers \/ \E p \in NumericTexts : p[1] = call.value) =>
               LET n == NumberOf(call.value)
               IN  CASE call.fn \in {"_millibar_to_bar", "_milliliters_to_liters"}
                                                      -> Nearest(call.ret, n, 1000, 1000)
                     [] call.fn = "_tenths_to_celsius" -> Nearest(call.ret, n, 10, 10)
                     [] call.fn = "_tenths_to_volts"   -> Nearest(call.ret, n, 10, 100)
                     [] call.fn = "_uscm_to_hardness"  -> Nearest(call.ret, n, 30, 100)
        /\ (call.fn = "_tenths_to_celsius" /\ call.value = Num(205 * Scale))
               => call.ret = Num(20 * Scale + Scale \div 2)
        /\ (call.fn = "_millibar_to_bar" /\ call.value = Num(1234 * Scale))
               => call.ret = Num(Scale + 234 * (Scale \div 1000))
        /\ (call.fn = "_tenths_to_volts" /\ call.value = Num(37 * Scale))
               => call.ret = Num(3 * Scale + 7 * (Scale \div 10))
        /\ (call.fn = "_uscm_to_hardness" /\ call.value = Num(450 * Scale))
               => call.ret = Num(15 * Scale)

\* a conductivity of 455 uS/cm read as 15.17 (455 / 30 = 15.1666...)
C17_Witness ==
    /\ call.op = "native_value"
    /\ call.fn = "_uscm_to_hardness"
    /\ call.value = Num(455 * Scale)
    /\ call.ret = Num(15 * Scale + 17 * (Scale \div 100))


\* the paths of the per-field requests of the main channel
FieldPaths == {MAIN_KEY_MAP[i].path : i \in 1..Len(MAIN_KEY_MAP)}

\* C18 (pressure channel protocol): a pressure cycle requests get/bar and
\* nothing else, never the admin trigger, get/all or a per-field path of the
\* main channel; a main cycle issues the admin trigger once, before its first
\* data request.
C18_ChannelProtocol ==
    /\ \A i \in 1..Len(cycle["pressure"].calls) :
           /\ cycle["pressure"].calls[i] = "get/bar"
           /\ cycle["pressure"].calls[i] \notin {"set/adm/(2)f", "get/all"} \cup FieldPaths
    /\ cycle["pressure"].result \in {"ok", "failed"} => cycle["pressure"].calls # <<>>
    /\ LET calls == cycle["main"].calls
       IN  /\ calls # <<>> => calls[1] = "set/adm/(2)f"
           /\ \A i \in 2..Len(calls) : calls[i] \in {"get/all"} \cup FieldPaths
           /\ "set/adm/(2)f" \notin {"get/all"} \cup FieldPaths
           /\ cycle["main"].result \in {"ok", "failed"} => calls # <<>>

\* a pressure cycle and a main cycle that fell back to the per-field requests
\* have both ended well
C18_Witness ==
    /\ cycle["pressure"] = [calls |-> <<"get/bar">>, result |-> "ok"]
    /\ cycle["main"].result = "ok"
    /\ Len(cycle["main"].calls) = 2 + Len(MAIN_KEY_MAP)
    /\ cycle["main"].calls[1] = "set/adm/(2)f"


\* C19 (shutdown): once the config entry is unloaded no fetch is in flight,
\* the interval timer of neither channel can fire, and no step changes a
\* channel's cache or the rate tracker.
C19_ShutdownQuiesces ==
    [][entry.state = "unloaded" =>
           /\ \A c \in Channels : task[c].pc = "idle" /\ ~ENABLED TimerTick(c)
           /\ coord' = coord
           /\ tracker' = tracker]_vars


\* field is absent or comes from the value payload stores under api
FromOwnKey(field, payload, key, api) ==
    \/ field = None
    \/ /\ api \in DOMAIN payload.m
       /\ \/ field = payload.m[api]
          \/ key \in NumericKeys /\ field = _coerce_number(payload.m[api])

\* C20 (batch field provenance): each field of a snapshot taken from the
\* get/all response is absent or derived from the value the response stores
\* under that field's own api key, never from another key's value and never
\* the whole response.
C20_BatchProvenance ==
    LET all_payload == task["main"].all_payload
    IN  (task["main"].pc = "select" /\ all_payload.t = "dict"
            /\ HasLiveness(_parse_main_payload(all_payload)))
        => \A i \in 1..Len(MAIN_KEY_MAP) :
               FromOwnKey(_parse_main_payload(all_payload)[MAIN_KEY_MAP[i].key], all_payload,
                          MAIN_KEY_MAP[i].key, MAIN_KEY_MAP[i].api)


\* C21 (rate tracker frame): update(None) returns None and leaves the anchor
\* as it was; so does a sample below the anchor volume in the anchor's clock
\* hour; the anchor changes only on a sample that is not None and arrives with
\* no anchor set or in another clock hour; hour_start and hour_start_value are
\* both None or both set.
C21_TrackerFrame ==
    /\ (tracker.hour_start = None) <=> (tracker.hour_start_value = None)
    /\ call.op = "update" =>
           /\ call.value = None => (call.ret = None /\ tracker = call.before)
           /\ (/\ call.value # None
               /\ call.before.hour_start_value # None
               /\ call.before.hour_start = call.current_hour
               /\ call.value.n < call.before.hour_start_value.n) => tracker = call.before
           /\ tracker # call.before =>
                  /\ call.value # None
                  /\ \/ call.before.hour_start = None
                     \/ call.before.hour_start # call.current_hour
                  /\ tracker = [hour_start |-> call.current_hour, hour_start_value |-> call.value]

\* a sample of 90 against an anchor of 100 in the anchor's hour
C21_Witness ==
    /\ call.op = "update"
    /\ call.before = [hour_start |-> Hour(0), hour_start_value |-> Num(100 * Scale)]
    /\ call.current_hour = Hour(0)
    /\ call.value = Num(90 * Scale)
    /\ call.ret = None
    /\ tracker = call.before


\* the least number of HTTP attempts the cycle of channel c has made: each
\* request it has issued took one attempt or more
MinAttempts(c) == Len(cycle[c].calls)

\* C22 (bounded cycle): a polling cycle of either channel makes at most
\* RETRY_ATTEMPTS (3) HTTP request attempts in total before it succeeds or fails.
C22_BoundedCycle == \A c \in Channels : MinAttempts(c) <= 3


\* C23 (readiness ordering): the entities are added only once the first main
\* refresh and then the first pressure refresh have succeeded; the first
\* pressure refresh does not start before the first main refresh has ended
\* well; a first refresh that fails leaves no entity; an entity never reads a
\* coordinator without data.
C23_ReadinessOrdering ==
    /\ entities => (platform = "ready" /\ \A c \in Channels : coord[c].data # None)
    /\ platform = "first_main" =>
           /\ ~entities
           /\ cycle["main"].result = "running"
           /\ task["pressure"].pc = "idle" /\ cycle["pressure"] = NoCycle
           /\ coord["pressure"].data = None
    /\ platform = "first_pressure" =>
           /\ ~entities
           /\ task["main"].pc = "idle" /\ cycle["main"].result = "ok"
           /\ coord["main"].data # None
           /\ cycle["pressure"].result = "running"
    /\ platform = "aborted" =>
           /\ ~entities
           /\ \A c \in Channels : task[c].pc = "idle"
           /\ \/ cycle["main"].result = "failed" /\ cycle["pressure"] = NoCycle
              \/ cycle["main"].result = "ok" /\ cycle["pressure"].result = "failed"
    /\ \A c \in Channels : task[c].pc # "idle" =>
           platform \in {"ready"} \cup {IF c = "main" THEN "first_main" ELSE "first_pressure"}

\* the entities were added after both first refreshes, and the pressure
\* channel has not been refreshed since
C23_Witness ==
    /\ entities
    /\ platform = "ready"
    /\ cycle["main"].result = "ok"
    /\ cycle["pressure"] = [calls |-> <<"get/bar">>, result |-> "ok"]
    /\ \A c \in Channels : coord[c].data # None /\ coord[c].last_exception = "none"


\* C24 (setup gate and registry cleanup): the setup is forwarded to the sensor
\* platform only after the probe of /trio/get/vol was answered; an entry
\* without a host ends with False and no request; an entry whose setup did
\* not succeed (no host, probe failed) or that was unloaded has no record in
\* hass.data[DOMAIN].
C24_SetupGate ==
    /\ platform # "none" => (entry.host /\ entry.state \in {"forwarding", "loaded", "unloaded"})
    /\ entry.state \in {"forwarding", "loaded"} => (entry.host /\ platform # "none")
    /\ entry.state = "setup_false" =>
           (~entry.host /\ platform = "none" /\ \A c \in Channels : cycle[c] = NoCycle)
    /\ entry.state \in {"setup_false", "not_ready", "unloaded"} => ~registry

====
